---- MODULE Spec2Model ----
(***************************************************************************)
(* Model of scripts/detect_platform.py: the platform detector of the       *)
(* ai-resource-manager skill.                                              *)
(*                                                                         *)
(* A Python str is modelled as a sequence of characters; a character is a  *)
(* one-character TLA+ string, or the name of its code point ("U+0130")     *)
(* when it is outside ASCII.  str.lower() is modelled character by         *)
(* character, f-strings as concatenation.                                  *)
(***************************************************************************)
EXTENDS Naturals, Sequences, FiniteSets

VARIABLES
    name,         \* __name__ of the module: "__main__" or the import name
    system,       \* what platform.system() reports in this environment
    machine_raw,  \* what platform.machine() reports in this environment
    pc,           \* position of the interpreter
    os_name,      \* local os_name of detect_platform (line 8)
    machine,      \* local machine of detect_platform (line 9)
    arch,         \* local arch of detect_platform (lines 13, 16, 19)
    ret,          \* value returned by the last completed call
    returns,      \* values returned by the completed calls, in order
    stdout,       \* what print() calls have written, one entry per call
    exit_status   \* <<>> while the process runs, <<status>> once it has exited

vars == <<name, system, machine_raw, pc, os_name, machine, arch, ret,
          returns, stdout, exit_status>>

(***************************************************************************)
(* Bounds.                                                                 *)
(***************************************************************************)
\* how many positions of a base word are upper-cased in an input
MaxUpper == 1
\* how many times an importing caller calls detect_platform
MaxCalls == 2

(***************************************************************************)
(* Characters and str.lower().                                             *)
(***************************************************************************)
UpperAlpha == <<"A","B","C","D","E","F","G","H","I","J","K","L","M",
                "N","O","P","Q","R","S","T","U","V","W","X","Y","Z">>

LowerAlpha == <<"a","b","c","d","e","f","g","h","i","j","k","l","m",
                "n","o","p","q","r","s","t","u","v","w","x","y","z">>

IsUpper(c) == \E i \in 1..Len(UpperAlpha) : UpperAlpha[i] = c

IsLower(c) == \E i \in 1..Len(LowerAlpha) : LowerAlpha[i] = c

IndexOf(c, alpha) == CHOOSE i \in 1..Len(alpha) : alpha[i] = c

\* str.lower() on one character.  An ASCII capital maps to its small letter;
\* LATIN CAPITAL LETTER I WITH DOT ABOVE (U+0130) maps to the two characters
\* "i" + COMBINING DOT ABOVE (U+0307); every other character of the model is
\* left alone.
lower_char_identity(c) == <<c>>

lower_char(c) ==
    IF IsUpper(c) THEN <<LowerAlpha[IndexOf(c, UpperAlpha)]>>
    ELSE IF c = "U+0130" THEN <<"i", "U+0307">>
    ELSE <<c>>

RECURSIVE lower(_)
lower(s) == IF s = <<>> THEN <<>> ELSE lower_char(Head(s)) \o lower(Tail(s))

\* str.upper() on one ASCII character, used to build the inputs only
upper_char(c) == IF IsLower(c) THEN UpperAlpha[IndexOf(c, LowerAlpha)] ELSE c

\* s with the letter case of the ASCII letters at the positions in P swapped
SwapCaseAt(s, P) ==
    [i \in 1..Len(s) |->
        IF i \notin P THEN s[i]
        ELSE IF IsLower(s[i]) THEN upper_char(s[i])
        ELSE IF IsUpper(s[i]) THEN LowerAlpha[IndexOf(s[i], UpperAlpha)]
        ELSE s[i]]

(***************************************************************************)
(* The string literals of the program.                                     *)
(***************************************************************************)
linux == <<"l","i","n","u","x">>
darwin == <<"d","a","r","w","i","n">>
windows == <<"w","i","n","d","o","w","s">>
x86_64 == <<"x","8","6","_","6","4">>
amd64 == <<"a","m","d","6","4">>
arm64 == <<"a","r","m","6","4">>
unknown == <<"u","n","k","n","o","w","n">>
linux_ == <<"l","i","n","u","x","_">>
darwin_ == <<"d","a","r","w","i","n","_">>
windows_ == <<"w","i","n","d","o","w","s","_">>
\* the line terminator print() appends
newline == <<"\n">>
\* a local that has not been assigned / no value returned yet
Unset == <<>>

(***************************************************************************)
(* detect_platform(), lines 6-22.                                          *)
(***************************************************************************)
\* line 13: arch = "amd64" if machine in ["x86_64", "amd64"] else "arm64"
arch_linux_x86_64_only(m) == IF m = x86_64 THEN amd64 ELSE arm64

arch_linux(m) == IF m \in {x86_64, amd64} THEN amd64 ELSE arm64

\* line 16: arch = "arm64" if machine == "arm64" else "amd64"
arch_darwin_default_arm64(m) == IF m \in {x86_64, amd64} THEN amd64 ELSE arm64

arch_darwin(m) == IF m = arm64 THEN arm64 ELSE amd64

\* line 19: arch = "amd64" if machine in ["x86_64", "amd64"] else "arm64"
arch_windows_passthrough(m) == IF m \in {x86_64, amd64} THEN amd64 ELSE m

arch_windows_default_amd64(m) == IF m = arm64 THEN arm64 ELSE amd64

arch_windows(m) == IF m \in {x86_64, amd64} THEN amd64 ELSE arm64

\* the conditions of the if / elif / elif / else chain of lines 12-21; an
\* elif is reached only when the tests above it have failed
guard_linux_startswith(o) == Len(o) >= Len(linux) /\ SubSeq(o, 1, Len(linux)) = linux

guard_linux(o) == o = linux

guard_darwin(o) == ~guard_linux(o) /\ o = darwin

guard_windows_x86_only(o) ==
    ~guard_linux(o) /\ ~guard_darwin(o) /\ o = windows /\ machine \in {x86_64, amd64}

guard_windows(o) == ~guard_linux(o) /\ ~guard_darwin(o) /\ o = windows

guard_else_empty_only(o) ==
    ~guard_linux(o) /\ ~guard_darwin(o) /\ ~guard_windows(o) /\ o = <<>>

guard_else(o) == ~guard_linux(o) /\ ~guard_darwin(o) /\ ~guard_windows(o)

\* the function as a whole, on what platform.system() and platform.machine()
\* report
detect_platform(sys, mach) ==
    LET o == lower(sys)
        m == lower(mach)
    IN  IF guard_linux(o) THEN linux_ \o arch_linux(m)
        ELSE IF guard_darwin(o) THEN darwin_ \o arch_darwin(m)
        ELSE IF guard_windows(o) THEN windows_ \o arch_windows(m)
        ELSE unknown

(***************************************************************************)
(* The environments: what the host may report.  Base words in lower case,  *)
(* each with up to MaxUpper letters upper-cased, and all of them           *)
(* upper-cased.                                                            *)
(***************************************************************************)
CaseVariants(w) ==
    {SwapCaseAt(w, P) : P \in {Q \in SUBSET (1..Len(w)) : Cardinality(Q) <= MaxUpper}}
        \cup {SwapCaseAt(w, 1..Len(w))}

SystemWords ==
    { linux, darwin, windows,
      <<"f","r","e","e","b","s","d">>,
      <<"j","a","v","a">>,
      <<"l","i","n","u","x","2">>,
      <<>> }

MachineWords ==
    { x86_64, amd64, arm64,
      <<"a","a","r","c","h","6","4">>,
      <<"i","6","8","6">>,
      <<"a","r","m","v","7","l">>,
      <<>> }

\* "LİNUX": lower-cases to a six-character string that is not "linux"
DottedLinux == <<"L","U+0130","N","U","X">>

SystemNames == UNION {CaseVariants(w) : w \in SystemWords} \cup {DottedLinux}

MachineNames == UNION {CaseVariants(w) : w \in MachineWords}

ModuleNames == {"__main__", "detect_platform"}

(***************************************************************************)
(* The program.                                                            *)
(***************************************************************************)
Init ==
    /\ name \in ModuleNames
    /\ system \in SystemNames
    /\ machine_raw \in MachineNames
    /\ pc = "load"
    /\ os_name = Unset
    /\ machine = Unset
    /\ arch = Unset
    /\ ret = Unset
    /\ returns = <<>>
    /\ stdout = <<>>
    /\ exit_status = <<>>

\* line 25: if __name__ == "__main__": the script calls detect_platform();
\* an importing module gets the function and nothing runs
ModuleGuard ==
    /\ pc = "load"
    /\ pc' = IF name = "__main__" THEN "l8" ELSE "imported"
    /\ UNCHANGED <<name, system, machine_raw, os_name, machine, arch, ret,
                   returns, stdout, exit_status>>

\* the importing module calls detect_platform(): a fresh frame
ImportCall_shared_frame ==
    /\ pc = "imported"
    /\ Len(returns) < MaxCalls
    /\ pc' = "l8"
    /\ UNCHANGED <<name, system, machine_raw, os_name, machine, arch, ret,
                   returns, stdout, exit_status>>

ImportCall ==
    /\ pc = "imported"
    /\ Len(returns) < MaxCalls
    /\ pc' = "l8"
    /\ os_name' = Unset
    /\ machine' = Unset
    /\ arch' = Unset
    /\ UNCHANGED <<name, system, machine_raw, ret, returns, stdout, exit_status>>

\* line 8: os_name = platform.system().lower()
ReadSystem ==
    /\ pc = "l8"
    /\ os_name' = lower(system)
    /\ pc' = "l9"
    /\ UNCHANGED <<name, system, machine_raw, machine, arch, ret, returns,
                   stdout, exit_status>>

\* line 9: machine = platform.machine().lower()
ReadMachine ==
    /\ pc = "l9"
    /\ machine' = lower(machine_raw)
    /\ pc' = "l12"
    /\ UNCHANGED <<name, system, machine_raw, os_name, arch, ret, returns,
                   stdout, exit_status>>

\* a return statement: the value goes to the caller
Return(v) ==
    /\ ret' = v
    /\ returns' = Append(returns, v)
    /\ pc' = "returned"

\* lines 12-14
BranchLinux ==
    /\ pc = "l12"
    /\ guard_linux(os_name)
    /\ arch' = arch_linux(machine)
    /\ Return(linux_ \o arch')
    /\ UNCHANGED <<name, system, machine_raw, os_name, machine, stdout,
                   exit_status>>

\* lines 15-17
BranchDarwin ==
    /\ pc = "l12"
    /\ guard_darwin(os_name)
    /\ arch' = arch_darwin(machine)
    /\ Return(darwin_ \o arch')
    /\ UNCHANGED <<name, system, machine_raw, os_name, machine, stdout,
                   exit_status>>

\* lines 18-20
BranchWindows ==
    /\ pc = "l12"
    /\ guard_windows(os_name)
    /\ arch' = arch_windows(machine)
    /\ Return(windows_ \o arch')
    /\ UNCHANGED <<name, system, machine_raw, os_name, machine, stdout,
                   exit_status>>

\* lines 21-22
BranchElse ==
    /\ pc = "l12"
    /\ guard_else(os_name)
    /\ Return(unknown)
    /\ UNCHANGED <<name, system, machine_raw, os_name, machine, arch, stdout,
                   exit_status>>

\* line 26: print(<the returned value>) writes it and a newline
PrintResult ==
    /\ pc = "returned"
    /\ name = "__main__"
    /\ stdout' = Append(stdout, ret \o newline)
    /\ pc' = "eof"
    /\ UNCHANGED <<name, system, machine_raw, os_name, machine, arch, ret,
                   returns, exit_status>>

\* the importing module has the value; control is back with it
BackToCaller ==
    /\ pc = "returned"
    /\ name # "__main__"
    /\ pc' = "imported"
    /\ UNCHANGED <<name, system, machine_raw, os_name, machine, arch, ret,
                   returns, stdout, exit_status>>

\* end of the script: the interpreter exits with status 0
Exit_fails_on_unknown ==
    /\ pc = "eof"
    /\ pc' = "exited"
    /\ exit_status' = IF ret = unknown THEN <<1>> ELSE <<0>>
    /\ UNCHANGED <<name, system, machine_raw, os_name, machine, arch, ret,
                   returns, stdout>>

Exit ==
    /\ pc = "eof"
    /\ pc' = "exited"
    /\ exit_status' = <<0>>
    /\ UNCHANGED <<name, system, machine_raw, os_name, machine, arch, ret,
                   returns, stdout>>

\* the steps the interpreter takes on its own
Step ==
    \/ ModuleGuard
    \/ ReadSystem
    \/ ReadMachine
    \/ BranchLinux
    \/ BranchDarwin
    \/ BranchWindows
    \/ BranchElse
    \/ PrintResult
    \/ BackToCaller
    \/ Exit

Next == Step \/ ImportCall

Spec == Init /\ [][Next]_vars

\* the interpreter is single-threaded and runs a started script or call to
\* its end; whether an importing module calls again is up to that module
FairSpec == Spec /\ WF_vars(Step)

TypeOK ==
    /\ name \in ModuleNames
    /\ system \in SystemNames
    /\ machine_raw \in MachineNames
    /\ pc \in {"load", "imported", "l8", "l9", "l12", "returned", "eof", "exited"}
    /\ exit_status \in {<<>>, <<0>>}
    /\ Len(returns) <= MaxCalls
    /\ Len(stdout) <= 1

(***************************************************************************)
(* Properties.                                                             *)
(***************************************************************************)
linux_amd64 == <<"l","i","n","u","x","_","a","m","d","6","4">>
linux_arm64 == <<"l","i","n","u","x","_","a","r","m","6","4">>
darwin_amd64 == <<"d","a","r","w","i","n","_","a","m","d","6","4">>
darwin_arm64 == <<"d","a","r","w","i","n","_","a","r","m","6","4">>
windows_amd64 == <<"w","i","n","d","o","w","s","_","a","m","d","6","4">>
windows_arm64 == <<"w","i","n","d","o","w","s","_","a","r","m","6","4">>

PlatformIds ==
    {linux_amd64, linux_arm64, darwin_amd64, darwin_arm64,
     windows_amd64, windows_arm64}

\* positions of "_" in s
Underscores(s) == {i \in 1..Len(s) : s[i] = "_"}

FirstUnderscore(s) == CHOOSE i \in Underscores(s) : \A j \in Underscores(s) : i <= j

\* the part of an identifier before its first underscore (all of it when it
\* has none) and the part after it
OsToken(s) ==
    IF Underscores(s) = {} THEN s ELSE SubSeq(s, 1, FirstUnderscore(s) - 1)

ArchToken(s) ==
    IF Underscores(s) = {} THEN <<>> ELSE SubSeq(s, FirstUnderscore(s) + 1, Len(s))

Called == pc = "returned"

\* C1: whatever the environment reports, a value returned by detect_platform
\* is "unknown" or one of the six <os>_<arch> identifiers with <os> in
\* {linux, darwin, windows} and <arch> in {amd64, arm64}.
C1_OutputFormat ==
    /\ Called => ret \in PlatformIds \cup {unknown}
    /\ \A i \in 1..Len(returns) : returns[i] \in PlatformIds \cup {unknown}

C1_Witness ==
    /\ Called
    /\ lower(system) = windows
    /\ lower(machine_raw) = <<"a","a","r","c","h","6","4">>
    /\ ret = windows_arm64

\* C2: when the lower-cased OS name is "linux", the result is "linux_amd64"
\* if the lower-cased architecture is "x86_64" or "amd64" and "linux_arm64"
\* for every other architecture string.
C2_Linux ==
    (Called /\ lower(system) = linux) =>
        ret = IF lower(machine_raw) = x86_64 \/ lower(machine_raw) = amd64
              THEN linux_amd64 ELSE linux_arm64

C2_Witness ==
    /\ Called
    /\ system = linux
    /\ machine_raw = amd64
    /\ ret = linux_amd64

\* C3: when the lower-cased OS name is "darwin", the result is
\* "darwin_arm64" if the lower-cased architecture is exactly "arm64" and
\* "darwin_amd64" for every other architecture string.
C3_Darwin ==
    (Called /\ lower(system) = darwin) =>
        ret = IF lower(machine_raw) = arm64 THEN darwin_arm64 ELSE darwin_amd64

C3_Witness ==
    /\ Called
    /\ system = darwin
    /\ machine_raw = <<"a","a","r","c","h","6","4">>
    /\ ret = darwin_amd64

\* C4: when the lower-cased OS name is "windows", the result is "windows_"
\* followed by the architecture token that linux gives for the same
\* architecture string: amd64 exactly when the lower-cased architecture is
\* "x86_64" or "amd64", arm64 otherwise.
C4_WindowsLikeLinux ==
    (Called /\ lower(system) = windows) =>
        /\ OsToken(ret) = windows
        /\ ArchToken(ret) = ArchToken(detect_platform(linux, machine_raw))
        /\ ArchToken(ret) =
              IF lower(machine_raw) = x86_64 \/ lower(machine_raw) = amd64
              THEN amd64 ELSE arm64

C4_Witness ==
    /\ Called
    /\ system = <<"W","i","n","d","o","w","s">>
    /\ machine_raw = <<"A","M","D","6","4">>
    /\ ret = windows_amd64
    /\ detect_platform(linux, machine_raw) = linux_amd64

\* C5: when the lower-cased OS name is none of "linux", "darwin", "windows",
\* the result is the literal "unknown", whatever the architecture string.
C5_Unknown ==
    (Called /\ lower(system) \notin {linux, darwin, windows}) => ret = unknown

C5_Witness ==
    /\ Called
    /\ system = <<"l","i","n","u","x","2">>
    /\ machine_raw = x86_64
    /\ ret = unknown

\* the sets of positions whose case is changed: any one position, any two,
\* or all of them
CaseChanges(s) ==
    {{i, j} : i, j \in 1..Len(s)} \cup {1..Len(s)}

\* C6: changing the letter case of the OS name or of the architecture
\* string (of one letter, of two, or of all of them, in either or both
\* inputs) does not change the result.
C6_CaseInsensitive ==
    Called =>
        /\ \A P \in CaseChanges(system) :
              detect_platform(SwapCaseAt(system, P), machine_raw) = ret
        /\ \A P \in CaseChanges(machine_raw) :
              detect_platform(system, SwapCaseAt(machine_raw, P)) = ret
        /\ detect_platform(SwapCaseAt(system, 1..Len(system)),
                           SwapCaseAt(machine_raw, 1..Len(machine_raw))) = ret

C6_Witness ==
    /\ Called
    /\ system = <<"W","I","N","D","O","W","S">>
    /\ machine_raw = <<"A","M","D","6","4">>
    /\ ret = windows_amd64

\* C7: detect_platform is total: at the branch exactly one of the four
\* branches applies, and every call that starts returns a non-empty string.
BranchesApplying ==
    {b \in {"linux", "darwin", "windows", "else"} :
        \/ b = "linux" /\ guard_linux(os_name)
        \/ b = "darwin" /\ guard_darwin(os_name)
        \/ b = "windows" /\ guard_windows(os_name)
        \/ b = "else" /\ guard_else(os_name)}

C7_Total ==
    /\ [](pc = "l12" => Cardinality(BranchesApplying) = 1)
    /\ [](pc = "l8" => <>(Called /\ Len(ret) > 0 /\ Len(returns) > 0))

C7_Witness ==
    /\ Called
    /\ system = <<>>
    /\ machine_raw = <<>>
    /\ BranchesApplying = {"else"}
    /\ ret = unknown

\* C8: run as an entry point, the program prints exactly once, the line
\* being the identifier detect_platform computed followed by a newline,
\* and then exits with status 0: never two prints, never an exit without
\* the print, never a non-zero status.
C8_EntryPoint ==
    (name = "__main__") =>
        /\ [](Len(stdout) <= 1)
        /\ [](exit_status # <<>> => Len(stdout) = 1 /\ exit_status = <<0>>)
        /\ [](Len(stdout) = 1 => stdout[1] = ret \o newline /\ ret = returns[1])
        /\ <>[](pc = "exited" /\ Len(stdout) = 1 /\ exit_status = <<0>>)

C8_Witness ==
    /\ name = "__main__"
    /\ pc = "exited"
    /\ stdout = << <<"u","n","k","n","o","w","n","\n">> >>
    /\ exit_status = <<0>>

\* C9: calls in the same environment return identical results, and a call
\* leaves nothing behind for the next one: every call starts from a fresh
\* frame.
C9_Stateless ==
    /\ \A i, j \in 1..Len(returns) : returns[i] = returns[j]
    /\ pc = "l8" => os_name = Unset /\ machine = Unset /\ arch = Unset

C9_Witness ==
    /\ name # "__main__"
    /\ pc = "imported"
    /\ Len(returns) >= 2
    /\ returns[1] = darwin_arm64
    /\ returns[2] = darwin_arm64

\* C10: the OS token of the result depends on the OS name only: a
\* recognized OS name gives exactly that name and an underscore as prefix,
\* whatever the architecture string, and the result is "unknown" only for
\* an OS name that is none of the three.
C10_OsTokenFromOsNameOnly ==
    Called =>
        /\ \A m2 \in MachineNames :
              OsToken(detect_platform(system, m2)) = OsToken(ret)
        /\ lower(system) \in {linux, darwin, windows} =>
              /\ Len(ret) > Len(lower(system))
              /\ SubSeq(ret, 1, Len(lower(system)) + 1) = lower(system) \o <<"_">>
        /\ ret = unknown => lower(system) \notin {linux, darwin, windows}

C10_Witness ==
    /\ Called
    /\ system = windows
    /\ machine_raw = <<"i","6","8","6">>
    /\ OsToken(ret) = windows

====
